---- MODULE Spec2Model ----
(***************************************************************************)
(* Model of the maximal-empty-hyper-rectangle search:                      *)
(*   HyperRectangle  (src/HyperRectangle.py)                               *)
(*   HoleFinder      (src/bigholes/HoleFinder.py)                          *)
(* Coordinates are integers; a uniform real draw r is represented by the   *)
(* integer 2*r, so that r can fall on a projected value or strictly        *)
(* between two of them.                                                    *)
(***************************************************************************)
EXTENDS Integers, Sequences, FiniteSets, TLC

\* ------------------------------------------------------------------ bounds
\* largest coordinate of the exhaustively enumerated datasets
MaxCoord == 2
\* largest number of rows of the exhaustively enumerated datasets
MaxPoints == 2
\* largest burst length int(|N(0,1)|)+1 drawn by the random strategy
MaxSteps == 2
\* largest maxitr handed to findLargestMEHRs
MaxItr == 2
\* largest threshold handed to findLargestMEHRs (the smallest is -1)
MaxThreshold == 1
\* multiprocessing.cpu_count() of the host
CpuCount == 1
\* dimensions k of the enumerated datasets
Ks == {1, 2}

Min(a, b) == IF a < b THEN a ELSE b
Max(a, b) == IF a > b THEN a ELSE b

\* ---------------------------------------------------------------- datasets
Points(kk) == [0..(kk-1) -> 0..MaxCoord]

LexLess(p, q) ==
  \E i \in DOMAIN p : p[i] < q[i] /\ \A j \in DOMAIN p : j < i => p[j] = q[j]

\* n x k matrices, n in 1..MaxPoints, rows listed in increasing order (no
\* operation of the engine depends on the order of the rows)
GridData(kk) ==
  UNION { { rows \in [1..nn -> Points(kk)] :
              \A r \in 1..(nn-1) : LexLess(rows[r], rows[r+1]) } : nn \in 1..MaxPoints }

\* six points around an empty square, none of whose sides is on the bounding box
HoleData ==
  << (0 :> 0 @@ 1 :> 0), (0 :> 1 @@ 1 :> 2), (0 :> 2 @@ 1 :> 1),
     (0 :> 2 @@ 1 :> 3), (0 :> 3 @@ 1 :> 2), (0 :> 4 @@ 1 :> 4) >>

\* four points on a line, unevenly spaced
LineData == << (0 :> 0), (0 :> 1), (0 :> 3), (0 :> 4) >>

\* two opposite corners of a box
PairData == << (0 :> 0 @@ 1 :> 0), (0 :> 1 @@ 1 :> 2) >>

\* three points on a diagonal, unevenly spaced
DiagData == << (0 :> 0 @@ 1 :> 0), (0 :> 1 @@ 1 :> 1), (0 :> 3 @@ 1 :> 3) >>

\* two points that share their first coordinate
ColumnData == << (0 :> 0 @@ 1 :> 0), (0 :> 0 @@ 1 :> 1) >>

\* the datasets on which one seed-and-expand call is explored
AllData == (UNION { GridData(kk) : kk \in Ks }) \cup {HoleData, LineData, DiagData, PairData, ColumnData}

\* the datasets on which whole searches are explored
SearchData == {LineData, PairData, ColumnData}

\* the datasets on which sequential searches are explored
SeqData == {HoleData, DiagData, LineData, PairData, ColumnData}

\* threshold=None, or a number
NoThreshold == [given |-> FALSE, val |-> 0]
Thresholds == {NoThreshold} \cup {[given |-> TRUE, val |-> v] : v \in (-1)..MaxThreshold}

Strategies == {"sequential", "even", "random"}

\* ---------------------------------------------------------------- variables
VARIABLES
  data, strategy, interiorOnly, lows, highs, n, k, projections, maps,
  tpc, ehr, undxs, lndxs, interior, order, pos, phase, ubound, lbound, directions,
  maxitr, threshold, dpc, c, maxFound, hallOfFame, hofSizes, mehrs, batch, idx,
  exterior, artifact, batches, writes, outcome,
  rself, rcall, rres

engineVars == <<data, strategy, interiorOnly, lows, highs, n, k, projections, maps>>
taskVars == <<tpc, ehr, undxs, lndxs, interior, order, pos, phase, ubound, lbound, directions>>
driverVars == <<maxitr, threshold, dpc, c, maxFound, hallOfFame, hofSizes, mehrs, batch,
                idx, exterior, artifact, batches, writes, outcome>>
geomVars == <<rself, rcall, rres>>
vars == <<engineVars, taskVars, driverVars, geomVars>>

\* ------------------------------------------------------------ HyperRectangle
\* HyperRectangle(dimension): U and L all zero
NewRect(dimension) ==
  [U |-> [i \in 0..(dimension-1) |-> 0], L |-> [i \in 0..(dimension-1) |-> 0]]

RECURSIVE ProdWidths(_, _)
ProdWidths(r, dims) ==
  IF dims = {} THEN 1
  ELSE LET i == CHOOSE x \in dims : TRUE
       IN (r.U[i] - r.L[i]) * ProdWidths(r, dims \ {i})

volume(r) == ProdWidths(r, DOMAIN r.U)

contains(r, point) ==
  (\A i \in DOMAIN r.L : r.L[i] < point[i]) /\ (\A i \in DOMAIN r.U : r.U[i] > point[i])

\* what a call of intersect hands back: a rectangle, None, or a raised ValueError
RectResult(r) == [kind |-> "rect", rect |-> r]
NoneResult == [kind |-> "None", rect |-> NewRect(0)]
ValueError == [kind |-> "ValueError", rect |-> NewRect(0)]

intersect_NoneOnTouch(self, other) ==
  IF DOMAIN self.L # DOMAIN other.L THEN ValueError
  ELSE LET r == [L |-> [i \in DOMAIN self.L |-> Max(self.L[i], other.L[i])],
                 U |-> [i \in DOMAIN self.U |-> Min(self.U[i], other.U[i])]]
       IN IF \E i \in DOMAIN r.U : r.U[i] - r.L[i] <= 0 THEN NoneResult ELSE RectResult(r)

intersect_KeepUpper(self, other) ==
  IF DOMAIN self.L # DOMAIN other.L THEN ValueError
  ELSE LET r == [L |-> [i \in DOMAIN self.L |-> Max(self.L[i], other.L[i])],
                 U |-> self.U]
       IN IF \E i \in DOMAIN r.U : r.U[i] - r.L[i] < 0 THEN NoneResult ELSE RectResult(r)

intersect(self, other) ==
  IF DOMAIN self.L # DOMAIN other.L THEN ValueError
  ELSE LET r == [L |-> [i \in DOMAIN self.L |-> Max(self.L[i], other.L[i])],
                 U |-> [i \in DOMAIN self.U |-> Min(self.U[i], other.U[i])]]
       IN IF \E i \in DOMAIN r.U : r.U[i] - r.L[i] < 0 THEN NoneResult ELSE RectResult(r)

inWay_LowerOnly(r, point, d) ==
  LET aboveL == [i \in DOMAIN r.L |-> IF i = d THEN TRUE ELSE r.L[i] < point[i]]
  IN \A i \in DOMAIN aboveL : aboveL[i]

inWay_WithD(r, point, d) ==
  (\A i \in DOMAIN r.L : r.L[i] < point[i]) /\ (\A i \in DOMAIN r.U : r.U[i] > point[i])

inWay_NonStrict(r, point, d) ==
  LET aboveL == [i \in DOMAIN r.L |-> IF i = d THEN TRUE ELSE r.L[i] <= point[i]]
      belowU == [i \in DOMAIN r.U |-> IF i = d THEN TRUE ELSE r.U[i] >= point[i]]
  IN (\A i \in DOMAIN aboveL : aboveL[i]) /\ (\A i \in DOMAIN belowU : belowU[i])

inWay(r, point, d) ==
  LET aboveL == [i \in DOMAIN r.L |-> IF i = d THEN TRUE ELSE r.L[i] < point[i]]
      belowU == [i \in DOMAIN r.U |-> IF i = d THEN TRUE ELSE r.U[i] > point[i]]
  IN (\A i \in DOMAIN aboveL : aboveL[i]) /\ (\A i \in DOMAIN belowU : belowU[i])

isEmpty(r, dat) == \A x \in DOMAIN dat : ~contains(r, dat[x])

RectEq_Identity(a, b) == FALSE

RectEq(a, b) == a.U = b.U /\ a.L = b.L

RectHash(r) == <<r.U, r.L>>

\* rectangles a caller can build: any U and L over the coordinates
Rects(kk) == {[U |-> u, L |-> l] : u \in Points(kk), l \in Points(kk)}
GeomRects == UNION {Rects(kk) : kk \in Ks}

\* no method of a free-standing rectangle has been called
NoCall == [op |-> "none", other |-> NewRect(0), point |-> <<>>, d |-> 0]
NoResult == [kind |-> "none", rect |-> NewRect(0), bool |-> FALSE]
NoGeometry == rself = NewRect(1) /\ rcall = NoCall /\ rres = NoResult

\* r.intersect(other)
CallIntersect(other) ==
  /\ rcall = NoCall
  /\ rcall' = [op |-> "intersect", other |-> other, point |-> <<>>, d |-> 0]
  /\ rres' = [kind |-> intersect(rself, other).kind, rect |-> intersect(rself, other).rect,
              bool |-> FALSE]
  /\ UNCHANGED <<rself, engineVars, taskVars, driverVars>>

\* r.inWay(point, d)
CallInWay(point, d) ==
  /\ rcall = NoCall
  /\ rcall' = [op |-> "inWay", other |-> NewRect(0), point |-> point, d |-> d]
  /\ rres' = [kind |-> "bool", rect |-> NewRect(0), bool |-> inWay(rself, point, d)]
  /\ UNCHANGED <<rself, engineVars, taskVars, driverVars>>

\* r.contains(point)
CallContains(point) ==
  /\ rcall = NoCall
  /\ rcall' = [op |-> "contains", other |-> NewRect(0), point |-> point, d |-> 0]
  /\ rres' = [kind |-> "bool", rect |-> NewRect(0), bool |-> contains(rself, point)]
  /\ UNCHANGED <<rself, engineVars, taskVars, driverVars>>

\* ------------------------------------------------------- HoleFinder.__init__
ColMin(dat, i) == CHOOSE v \in {dat[x][i] : x \in DOMAIN dat} :
                    \A w \in {dat[x][i] : x \in DOMAIN dat} : v <= w
ColMax(dat, i) == CHOOSE v \in {dat[x][i] : x \in DOMAIN dat} :
                    \A w \in {dat[x][i] : x \in DOMAIN dat} : v >= w

\* numpy.unique(data[:,i]): the distinct values, ascending, positions 0..m-1
Unique(dat, i) ==
  LET vals == {dat[x][i] : x \in DOMAIN dat}
  IN [t \in 0..(Cardinality(vals)-1) |->
        CHOOSE v \in vals : Cardinality({w \in vals : w < v}) = t]

PLen(P) == Cardinality(DOMAIN P)

\* {ndx: numpy.where(data[:,i] == projections[i][ndx])[0]}
BuildMap(dat, i, P) == [ndx \in DOMAIN P |-> {x \in DOMAIN dat : dat[x][i] = P[ndx]}]

\* numpy indexing of a 1-d array: a negative position counts from the end
PyIndex(P, t) == IF t < 0 THEN P[PLen(P) + t] ELSE P[t]

\* locals of a seed-and-expand call before it has run
TaskIdle ==
  /\ tpc = "idle"
  /\ ehr = NewRect(k)
  /\ undxs = [i \in 0..(k-1) |-> 0]
  /\ lndxs = [i \in 0..(k-1) |-> 0]
  /\ interior = TRUE
  /\ order = <<>>
  /\ pos = 0
  /\ phase = "none"
  /\ ubound = [i \in 0..(k-1) |-> FALSE]
  /\ lbound = [i \in 0..(k-1) |-> FALSE]
  /\ directions = <<>>

\* HoleFinder(data, strategy, interiorOnly)
Engine(datasets) ==
  /\ data \in datasets
  /\ strategy \in Strategies
  /\ interiorOnly \in BOOLEAN
  /\ n = Len(data)
  /\ k = Cardinality(DOMAIN data[1])
  /\ lows = [i \in 0..(k-1) |-> ColMin(data, i)]
  /\ highs = [i \in 0..(k-1) |-> ColMax(data, i)]
  /\ projections = [i \in 0..(k-1) |-> Unique(data, i)]
  /\ maps = [i \in 0..(k-1) |-> BuildMap(data, i, Unique(data, i))]

NoHof == [kind |-> "none", items |-> <<>>]

\* what findLargestMEHRs hands to its caller: nothing yet, the returned Hall
\* of Fame, or an exception (the locals of the call are then out of reach)
Pending == [kind |-> "pending", error |-> "", value |-> NoHof]
Returned(hof) == [kind |-> "value", error |-> "", value |-> hof]
Raised(err) == [kind |-> "error", error |-> err, value |-> NoHof]

\* findLargestMEHRs(maxitr, threshold) entered: lines 47-50
SearchEntry ==
  /\ c = 0
  /\ maxFound = 0
  /\ hallOfFame = IF ~threshold.given THEN [kind |-> "list", items |-> <<>>]
                  ELSE [kind |-> "dict", items |-> <<>>]
  /\ hofSizes = <<>>
  /\ mehrs = <<>>
  /\ idx = 0
  /\ exterior = 0
  /\ artifact = NoHof
  /\ writes = 0
  /\ outcome = Pending

\* an engine on one of the search datasets and a search just entered
Init ==
  /\ Engine(SearchData)
  /\ maxitr \in 1..MaxItr
  /\ threshold \in Thresholds
  /\ SearchEntry
  /\ batch = 0
  /\ batches = 0
  /\ dpc = "loop"
  /\ TaskIdle
  /\ NoGeometry

\* a search just entered with any integer maxitr, positive or not
InitAnyCall ==
  /\ Engine(SearchData)
  /\ maxitr \in (-1)..MaxItr
  /\ threshold \in Thresholds
  /\ SearchEntry
  /\ batch = 0
  /\ batches = 0
  /\ dpc = "loop"
  /\ TaskIdle
  /\ NoGeometry

\* searches on the search datasets, and searches on the two-corner dataset
\* whose maxitr is larger than the largest batch of 10 calls per core
InitBatches ==
  /\ \/ Engine(SearchData) /\ maxitr \in 1..MaxItr
     \/ Engine({PairData}) /\ maxitr = CpuCount * 10 + 1
  /\ threshold \in Thresholds
  /\ SearchEntry
  /\ batch = 0
  /\ batches = 0
  /\ dpc = "loop"
  /\ TaskIdle
  /\ NoGeometry

\* sequential searches: with interior-only on, any maxitr and threshold; with
\* interior-only off, top-mode searches with maxitr = 1
InitSequential ==
  /\ Engine(SeqData)
  /\ strategy = "sequential"
  /\ \/ interiorOnly /\ maxitr \in 1..MaxItr /\ threshold \in Thresholds
     \/ ~interiorOnly /\ maxitr = 1 /\ threshold = NoThreshold
  /\ SearchEntry
  /\ batch = 0
  /\ batches = 0
  /\ dpc = "loop"
  /\ TaskIdle
  /\ NoGeometry

\* a free-standing rectangle, beside an engine that is not searching
InitGeom ==
  /\ rself \in GeomRects
  /\ rcall = NoCall
  /\ rres = NoResult
  /\ Engine({PairData})
  /\ strategy = "sequential"
  /\ ~interiorOnly
  /\ maxitr = 1
  /\ threshold = NoThreshold
  /\ SearchEntry
  /\ batch = 0
  /\ batches = 0
  /\ dpc = "none"
  /\ TaskIdle

\* an engine on any dataset, in the first batch of a search with maxitr = 1,
\* its one seed-and-expand call about to run
InitExpand ==
  /\ Engine(AllData)
  /\ maxitr = 1
  /\ threshold = NoThreshold
  /\ SearchEntry
  /\ batch = 1
  /\ batches = 1
  /\ dpc = "batch"
  /\ TaskIdle
  /\ NoGeometry

Dims == 0..(k-1)

\* ------------------------------------------------- HoleFinder._findRandomMEHR
\* numpy.searchsorted(P, r), side left: the number of entries below r = r2/2
searchsorted(P, r2) == Cardinality({t \in DOMAIN P : 2 * P[t] < r2})

\* numpy.clip(a, lo, hi) = minimum(maximum(a, lo), hi), also when lo > hi
clip(a, lo, hi) == Min(Max(a, lo), hi)

SeedNdx(P, r2) == clip(searchsorted(P, r2), 1, PLen(P) - 1)

\* the draws numpy.random.uniform(lows[i], highs[i]) can produce, doubled
DrawOk(r2) == \A i \in Dims : 2 * lows[i] <= r2[i] /\ r2[i] <= 2 * highs[i]
Draws ==
  LET top == CHOOSE v \in {highs[i] : i \in Dims} : \A i \in Dims : highs[i] <= v
  IN {r2 \in [Dims -> 0..(2 * top)] : DrawOk(r2)}

FindRandomMEHR(r2) ==
  /\ dpc = "batch"
  /\ tpc = "idle"
  /\ LET ndxs == [i \in Dims |-> SeedNdx(projections[i], r2[i])]
     IN /\ undxs' = ndxs
        /\ lndxs' = [i \in Dims |-> ndxs[i] - 1]
        /\ ehr' = [U |-> [i \in Dims |-> projections[i][ndxs[i]]],
                   L |-> [i \in Dims |-> PyIndex(projections[i], ndxs[i] - 1)]]
  /\ tpc' = "seeded"
  /\ UNCHANGED <<geomVars, engineVars, driverVars, interior, order, pos, phase, ubound, lbound, directions>>


\* ------------------------------------------------------ the face-push test
\* numpy.any([ehr.inWay(p, d) for p in pnts]) for the rows pnts = maps[d][t]
AnyInWay(r, d, t) == \E x \in maps[d][t] : inWay(r, data[x], d)

\* maps[d][t] raises KeyError when t is not a key of the dict
MapHas(d, t) == t \in DOMAIN maps[d]

AtUpperEdge(d, t) == t >= PLen(projections[d]) - 1
AtLowerEdge(d, t) == t <= 0

UpBlocked(r, d, t) == AnyInWay(r, d, t) \/ AtUpperEdge(d, t)
LowBlocked(r, d, t) == AnyInWay(r, d, t) \/ AtLowerEdge(d, t)

\* interior &= not undxs[d] >= len(self.projections[d]) - 1
InteriorAfterUp_Assign(intr, d, t) == ~(t >= PLen(projections[d]) - 1)

InteriorAfterUp(intr, d, t) == intr /\ ~(t >= PLen(projections[d]) - 1)

InteriorAfterDown_Keep(intr, d, t) == intr

\* interior &= not lndxs[d] <= 0
InteriorAfterDown(intr, d, t) == intr /\ ~(t <= 0)

\* the permutations numpy.random.permutation(range(k)) can return
Orders ==
  {s \in [1..k -> Dims] : \A a, b \in 1..k : a # b => s[a] # s[b]}

\* self.strategy(ehr, ndxs, ndxs-1): entry of the selected expansion
StartExpand(perm) ==
  /\ tpc = "seeded"
  /\ tpc' = "expand"
  /\ interior' = TRUE
  /\ IF strategy = "sequential"
     THEN /\ order' = perm /\ pos' = 1 /\ phase' = "up"
          /\ UNCHANGED <<ubound, lbound, directions>>
     ELSE IF strategy = "even"
     THEN /\ order' = perm /\ pos' = 1
          /\ ubound' = [i \in Dims |-> FALSE]
          /\ lbound' = [i \in Dims |-> FALSE]
          /\ UNCHANGED <<phase, directions>>
     ELSE /\ directions' = [j \in 1..(2 * k) |-> <<(j - 1) \div 2, (j - 1) % 2>>]
          /\ perm = CHOOSE s \in Orders : TRUE
          /\ UNCHANGED <<order, pos, phase, ubound, lbound>>
  /\ UNCHANGED <<geomVars, engineVars, driverVars, ehr, undxs, lndxs>>

\* --------------------------------------------- HoleFinder._sequentialExpand
SeqUp ==
  /\ tpc = "expand" /\ strategy = "sequential" /\ phase = "up"
  /\ LET d == order[pos] IN
     IF ~MapHas(d, undxs[d])
     THEN /\ tpc' = "keyerror"
          /\ UNCHANGED <<ehr, undxs, interior, phase>>
     ELSE IF UpBlocked(ehr, d, undxs[d])
     THEN /\ ehr' = [ehr EXCEPT !.U[d] = projections[d][undxs[d]]]
          /\ interior' = InteriorAfterUp(interior, d, undxs[d])
          /\ phase' = "down"
          /\ UNCHANGED <<tpc, undxs>>
     ELSE /\ undxs' = [undxs EXCEPT ![d] = @ + 1]
          /\ UNCHANGED <<tpc, ehr, interior, phase>>
  /\ UNCHANGED <<geomVars, engineVars, driverVars, lndxs, order, pos, ubound, lbound, directions>>

SeqDown ==
  /\ tpc = "expand" /\ strategy = "sequential" /\ phase = "down"
  /\ LET d == order[pos] IN
     IF ~MapHas(d, lndxs[d])
     THEN /\ tpc' = "keyerror"
          /\ UNCHANGED <<ehr, lndxs, interior, phase, pos>>
     ELSE IF LowBlocked(ehr, d, lndxs[d])
     THEN /\ ehr' = [ehr EXCEPT !.L[d] = projections[d][lndxs[d]]]
          /\ interior' = InteriorAfterDown(interior, d, lndxs[d])
          /\ IF pos = k
             THEN tpc' = "returned" /\ UNCHANGED <<pos, phase>>
             ELSE pos' = pos + 1 /\ phase' = "up" /\ UNCHANGED tpc
          /\ UNCHANGED lndxs
     ELSE /\ lndxs' = [lndxs EXCEPT ![d] = @ - 1]
          /\ UNCHANGED <<tpc, ehr, interior, phase, pos>>
  /\ UNCHANGED <<geomVars, engineVars, driverVars, undxs, order, ubound, lbound, directions>>

\* --------------------------------------------------- HoleFinder._evenExpand
\* the while condition of line 157, on the values given
EvenWhile(lb, ub, intr) ==
  ~((\A i \in Dims : lb[i]) /\ (\A i \in Dims : ub[i])) /\ (intr \/ ~interiorOnly)

\* one iteration of `for d in order` with the coin drawn; after the last
\* dimension of a cycle the while condition is evaluated again
EvenStep(coin) ==
  /\ tpc = "expand" /\ strategy = "even"
  /\ LET d == order[pos]
         goUp == coin = 1 /\ ~ubound[d]
         goDown == ~goUp /\ coin = 0 /\ ~lbound[d]
         fails == (goUp /\ ~MapHas(d, undxs[d])) \/ (goDown /\ ~MapHas(d, lndxs[d]))
         upLock == goUp /\ ~fails /\ UpBlocked(ehr, d, undxs[d])
         upMove == goUp /\ ~fails /\ ~UpBlocked(ehr, d, undxs[d])
         lowLock == goDown /\ ~fails /\ LowBlocked(ehr, d, lndxs[d])
         lowMove == goDown /\ ~fails /\ ~LowBlocked(ehr, d, lndxs[d])
         ub == IF upLock THEN [ubound EXCEPT ![d] = TRUE] ELSE ubound
         lb == IF lowLock THEN [lbound EXCEPT ![d] = TRUE] ELSE lbound
         intr == IF upLock THEN InteriorAfterUp(interior, d, undxs[d])
                 ELSE IF lowLock THEN InteriorAfterDown(interior, d, lndxs[d])
                 ELSE interior
     IN
     /\ ubound' = ub
     /\ lbound' = lb
     /\ interior' = intr
     /\ undxs' = IF upMove THEN [undxs EXCEPT ![d] = @ + 1] ELSE undxs
     /\ lndxs' = IF lowMove THEN [lndxs EXCEPT ![d] = @ - 1] ELSE lndxs
     /\ ehr' = IF upMove THEN [ehr EXCEPT !.U[d] = projections[d][undxs[d] + 1]]
               ELSE IF lowMove THEN [ehr EXCEPT !.L[d] = projections[d][lndxs[d] - 1]]
               ELSE ehr
     /\ IF fails THEN tpc' = "keyerror" /\ UNCHANGED pos
        ELSE IF pos < k THEN pos' = pos + 1 /\ UNCHANGED tpc
        ELSE /\ pos' = 1
             /\ tpc' = IF EvenWhile(lb, ub, intr) THEN "expand" ELSE "returned"
  /\ UNCHANGED <<geomVars, engineVars, driverVars, order, phase, directions>>

\* ------------------------------------------------- HoleFinder._randomExpand
\* the loop `for i in range(steps)` of the upward branch, from position t
RECURSIVE UpBurst(_, _, _, _)
UpBurst(r, d, t, steps) ==
  IF steps = 0
  THEN [rect |-> r, t |-> t, locked |-> FALSE, fail |-> FALSE]
  ELSE IF ~MapHas(d, t)
  THEN [rect |-> r, t |-> t, locked |-> FALSE, fail |-> TRUE]
  ELSE IF UpBlocked(r, d, t)
  THEN [rect |-> r, t |-> t, locked |-> TRUE, fail |-> FALSE]
  ELSE UpBurst([r EXCEPT !.U[d] = projections[d][t + 1]], d, t + 1, steps - 1)

\* the loop `for i in range(steps)` of the downward branch, from position t
RECURSIVE DownBurst(_, _, _, _)
DownBurst(r, d, t, steps) ==
  IF steps = 0
  THEN [rect |-> r, t |-> t, locked |-> FALSE, fail |-> FALSE]
  ELSE IF ~MapHas(d, t)
  THEN [rect |-> r, t |-> t, locked |-> FALSE, fail |-> TRUE]
  ELSE IF LowBlocked(r, d, t)
  THEN [rect |-> r, t |-> t, locked |-> TRUE, fail |-> FALSE]
  ELSE DownBurst([r EXCEPT !.L[d] = projections[d][t - 1]], d, t - 1, steps - 1)

\* directions[:r] + directions[r+1:], r counted from 1 here
RemoveAt(s, r) == [j \in 1..(Len(s) - 1) |-> IF j < r THEN s[j] ELSE s[j + 1]]

\* the while condition of line 192, on the values given
RandomWhile(dirs, intr) == dirs # <<>> /\ (intr \/ ~interiorOnly)

\* one pass of the while loop: the pair directions[r] and a burst of `steps`
RandomBurst(r, steps) ==
  /\ tpc = "expand" /\ strategy = "random"
  /\ r \in 1..Len(directions)
  /\ LET d == directions[r][1]
         coin == directions[r][2]
         b == IF coin = 1 THEN UpBurst(ehr, d, undxs[d], steps)
              ELSE DownBurst(ehr, d, lndxs[d], steps)
         dirs == IF b.locked THEN RemoveAt(directions, r) ELSE directions
         intr == IF ~b.locked THEN interior
                 ELSE IF coin = 1 THEN InteriorAfterUp(interior, d, b.t)
                 ELSE InteriorAfterDown(interior, d, b.t)
     IN
     /\ ehr' = b.rect
     /\ undxs' = IF coin = 1 THEN [undxs EXCEPT ![d] = b.t] ELSE undxs
     /\ lndxs' = IF coin = 1 THEN lndxs ELSE [lndxs EXCEPT ![d] = b.t]
     /\ directions' = dirs
     /\ interior' = intr
     /\ tpc' = IF b.fail THEN "keyerror"
               ELSE IF RandomWhile(dirs, intr) THEN "expand" ELSE "returned"
  /\ UNCHANGED <<geomVars, engineVars, driverVars, order, pos, phase, ubound, lbound>>

\* ------------------------------------------------------------ face status
\* whether the upper / lower face of dimension d has been found locked
ULocked(d) ==
  IF strategy = "sequential"
  THEN \E j \in 1..k : order[j] = d /\ (j < pos \/ (j = pos /\ phase = "down") \/ tpc = "returned")
  ELSE IF strategy = "even" THEN ubound[d]
  ELSE \A j \in 1..Len(directions) : directions[j] # <<d, 1>>

LLocked(d) ==
  IF strategy = "sequential"
  THEN \E j \in 1..k : order[j] = d /\ (j < pos \/ tpc = "returned")
  ELSE IF strategy = "even" THEN lbound[d]
  ELSE \A j \in 1..Len(directions) : directions[j] # <<d, 0>>

\* ------------------------------------------- HoleFinder.findLargestMEHRs
\* Python truth value of the threshold argument: None and 0 are false
Truthy(th) == th.given /\ th.val # 0

\* `rect in hallOfFame` for a dict: a key with the same hash that compares equal
DictHas(items, rect) ==
  \E j \in 1..Len(items) : RectHash(items[j].key) = RectHash(rect) /\ RectEq(items[j].key, rect)

\* `hallOfFame[rect] = volume` for a dict
DictSet(items, rect, v) ==
  IF DictHas(items, rect)
  THEN [j \in 1..Len(items) |->
          IF RectHash(items[j].key) = RectHash(rect) /\ RectEq(items[j].key, rect)
          THEN [key |-> items[j].key, val |-> v] ELSE items[j]]
  ELSE Append(items, [key |-> rect, val |-> v])

TaskReset ==
  /\ tpc' = "idle"
  /\ ehr' = NewRect(k)
  /\ undxs' = [i \in Dims |-> 0]
  /\ lndxs' = [i \in Dims |-> 0]
  /\ interior' = TRUE
  /\ order' = <<>>
  /\ pos' = 0
  /\ phase' = "none"
  /\ ubound' = [i \in Dims |-> FALSE]
  /\ lbound' = [i \in Dims |-> FALSE]
  /\ directions' = <<>>

BatchSize_Whole == Min(maxitr, CpuCount * 10)

\* the size of the next batch, line 55
BatchSize == Min(maxitr - c, CpuCount * 10)

\* `while c < maxitr` is true: a batch of calls is handed to the pool
Dispatch ==
  /\ dpc = "loop"
  /\ c < maxitr
  /\ batch' = BatchSize
  /\ batches' = batches + 1
  /\ mehrs' = <<>>
  /\ dpc' = "batch"
  /\ UNCHANGED <<geomVars, engineVars, taskVars, maxitr, threshold, c, maxFound, hallOfFame,
                 hofSizes, idx, exterior, artifact, writes, outcome>>

Collect_Eager ==
  /\ dpc = "batch"
  /\ tpc = "returned"
  /\ mehrs' = Append(mehrs, [rect |-> ehr, interior |-> interior])
  /\ hallOfFame' = IF hallOfFame.kind = "list" /\ volume(ehr) > maxFound
                   THEN [hallOfFame EXCEPT !.items = Append(@, ehr)]
                   ELSE hallOfFame
  /\ IF Len(mehrs) + 1 = batch
     THEN dpc' = "admit" /\ idx' = 1 /\ exterior' = 0
     ELSE UNCHANGED <<dpc, idx, exterior>>
  /\ TaskReset
  /\ UNCHANGED <<geomVars, engineVars, maxitr, threshold, c, maxFound, hofSizes,
                 batch, artifact, batches, writes, outcome>>

\* a call has returned: its (rect, interior) joins the batch's results; after
\* the last one Parallel returns and the results are handled
Collect ==
  /\ dpc = "batch"
  /\ tpc = "returned"
  /\ mehrs' = Append(mehrs, [rect |-> ehr, interior |-> interior])
  /\ IF Len(mehrs) + 1 = batch
     THEN dpc' = "admit" /\ idx' = 1 /\ exterior' = 0
     ELSE UNCHANGED <<dpc, idx, exterior>>
  /\ TaskReset
  /\ UNCHANGED <<geomVars, engineVars, maxitr, threshold, c, maxFound, hallOfFame, hofSizes,
                 batch, artifact, batches, writes, outcome>>

\* a call has raised: Parallel raises in the driver
WorkerError ==
  /\ dpc = "batch"
  /\ tpc = "keyerror"
  /\ dpc' = "crashed"
  /\ outcome' = Raised("KeyError")
  /\ UNCHANGED <<geomVars, engineVars, taskVars, maxitr, threshold, c, maxFound, hallOfFame,
                 hofSizes, mehrs, batch, idx, exterior, artifact, batches, writes>>

Admissible_Inverted(intr) == intr \/ interiorOnly

\* (interior or not self.interiorOnly)
Admissible(intr) == intr \/ ~interiorOnly

\* volume > threshold, line 64
OverThreshold(vol, th) == vol > th

NewLargest_Geq(vol, mf) == vol >= mf

\* volume > maxFound, line 73
NewLargest(vol, mf) == vol > mf

\* one pass of `for rect, interior in mehrs`, lines 59-80
HandleResult ==
  /\ dpc = "admit"
  /\ idx <= Len(mehrs)
  /\ LET rect == mehrs[idx].rect
         intr == mehrs[idx].interior
         vol == volume(rect)
     IN
     /\ exterior' = IF ~intr THEN exterior + 1 ELSE exterior
     /\ IF Admissible(intr) /\ Truthy(threshold) /\ OverThreshold(vol, threshold.val)
        THEN IF ~DictHas(hallOfFame.items, rect)
             THEN /\ hallOfFame' = [hallOfFame EXCEPT !.items = DictSet(@, rect, vol)]
                  /\ c' = 0
                  /\ idx' = idx + 1
                  /\ UNCHANGED <<maxFound, dpc, outcome>>
             ELSE /\ c' = c + 1
                  /\ idx' = idx + 1
                  /\ UNCHANGED <<hallOfFame, maxFound, dpc, outcome>>
        ELSE IF Admissible(intr) /\ ~Truthy(threshold) /\ NewLargest(vol, maxFound)
        THEN /\ maxFound' = vol
             /\ IF hallOfFame.kind = "list"
                THEN /\ hallOfFame' = [hallOfFame EXCEPT !.items = Append(@, rect)]
                     /\ c' = 0
                     /\ idx' = idx + 1
                     /\ UNCHANGED <<dpc, outcome>>
                ELSE \* a dict has no append: AttributeError
                     /\ dpc' = "crashed"
                     /\ outcome' = Raised("AttributeError")
                     /\ UNCHANGED <<hallOfFame, c, idx>>
        ELSE /\ c' = c + 1
             /\ idx' = idx + 1
             /\ UNCHANGED <<hallOfFame, maxFound, dpc, outcome>>
  /\ UNCHANGED <<geomVars, engineVars, taskVars, maxitr, threshold, hofSizes, mehrs, batch,
                 artifact, batches, writes>>

EndBatch_DumpOnChange ==
  /\ dpc = "admit"
  /\ idx > Len(mehrs)
  /\ hofSizes' = Append(hofSizes, Len(hallOfFame.items))
  /\ IF artifact # hallOfFame
     THEN artifact' = hallOfFame /\ writes' = writes + 1
     ELSE UNCHANGED <<artifact, writes>>
  /\ dpc' = "loop"
  /\ UNCHANGED <<geomVars, engineVars, taskVars, maxitr, threshold, c, maxFound, hallOfFame,
                 mehrs, batch, idx, exterior, batches, outcome>>

\* lines 82-85 after the last result: telemetry and the dump of the Hall of Fame
EndBatch ==
  /\ dpc = "admit"
  /\ idx > Len(mehrs)
  /\ hofSizes' = Append(hofSizes, Len(hallOfFame.items))
  /\ artifact' = hallOfFame
  /\ writes' = writes + 1
  /\ dpc' = "loop"
  /\ UNCHANGED <<geomVars, engineVars, taskVars, maxitr, threshold, c, maxFound, hallOfFame,
                 mehrs, batch, idx, exterior, batches, outcome>>

\* what a failed dump leaves of the file: open(..., 'wb') truncates it
Truncated == [kind |-> "truncated", items |-> <<>>]

\* lines 82-85 when open() or dump() raises: the file is untouched if open
\* failed and truncated otherwise; the exception leaves findLargestMEHRs
DumpFails ==
  /\ dpc = "admit"
  /\ idx > Len(mehrs)
  /\ hofSizes' = Append(hofSizes, Len(hallOfFame.items))
  /\ artifact' \in {artifact, Truncated}
  /\ dpc' = "crashed"
  /\ outcome' = Raised("OSError")
  /\ UNCHANGED <<geomVars, engineVars, taskVars, maxitr, threshold, c, maxFound, hallOfFame,
                 mehrs, batch, idx, exterior, batches, writes>>

\* `while c < maxitr` is false: return hallOfFame
Return ==
  /\ dpc = "loop"
  /\ ~(c < maxitr)
  /\ dpc' = "returned"
  /\ outcome' = Returned(hallOfFame)
  /\ UNCHANGED <<geomVars, engineVars, taskVars, maxitr, threshold, c, maxFound, hallOfFame,
                 hofSizes, mehrs, batch, idx, exterior, artifact, batches, writes>>

\* one seed-and-expand call
TaskNext ==
  \/ \E r2 \in Draws : FindRandomMEHR(r2)
  \/ \E perm \in Orders : StartExpand(perm)
  \/ SeqUp
  \/ SeqDown
  \/ \E coin \in {0, 1} : EvenStep(coin)
  \/ \E r \in 1..(2 * k), steps \in 1..MaxSteps : RandomBurst(r, steps)

Next ==
  \/ TaskNext
  \/ Dispatch
  \/ Collect
  \/ WorkerError
  \/ HandleResult
  \/ EndBatch
  \/ DumpFails
  \/ Return

Spec == Init /\ [][Next]_vars

ExpandSpec == InitExpand /\ [][TaskNext]_vars

\* searches called with any maxitr
AnyCallSpec == InitAnyCall /\ [][Next]_vars

\* searches whose batches are cut by maxitr - c and by 10 calls per core
BatchSpec == InitBatches /\ [][Next]_vars

\* a search with the sequential strategy
SeqNext ==
  \/ \E r2 \in Draws : FindRandomMEHR(r2)
  \/ \E perm \in Orders : StartExpand(perm)
  \/ SeqUp
  \/ SeqDown
  \/ Dispatch
  \/ Collect
  \/ WorkerError
  \/ HandleResult
  \/ EndBatch
  \/ DumpFails
  \/ Return

SeqSpec == InitSequential /\ [][SeqNext]_vars

\* calls of the methods of a free-standing rectangle
GeomNext ==
  \/ \E other \in GeomRects : CallIntersect(other)
  \/ \E point \in Points(Cardinality(DOMAIN rself.L)), d \in DOMAIN rself.L : CallInWay(point, d)
  \/ \E point \in Points(Cardinality(DOMAIN rself.L)) : CallContains(point)

GeomSpec == InitGeom /\ [][GeomNext]_vars

\* a pass of the even strategy that locks or moves a face
EvenProgress ==
  \E coin \in {0, 1} :
     EvenStep(coin) /\ <<undxs, lndxs, ubound, lbound, tpc>>' # <<undxs, lndxs, ubound, lbound, tpc>>

\* the pool and the driver keep running, and the fair coin of the even strategy
\* does not pick an already locked side for ever
FairSpec == Spec /\ WF_vars(Next) /\ SF_vars(EvenProgress)

\* one seed-and-expand call that keeps running, under the same fair coin
FairExpandSpec == ExpandSpec /\ WF_vars(TaskNext) /\ SF_vars(EvenProgress)

\* =========================================================== properties
\* p lies strictly between the lower and upper bound of r on every axis
StrictlyInside(r, p) == \A i \in DOMAIN p : r.L[i] < p[i] /\ p[i] < r.U[i]

\* p lies strictly between the bounds of r on every axis other than d
Obstructs(r, p, d) == \A j \in (DOMAIN p) \ {d} : r.L[j] < p[j] /\ p[j] < r.U[j]

Rows == DOMAIN data

\* C1: the rectangle returned by an expansion, under every strategy and with
\* interior-only on or off, has no data point strictly inside it
C1_EmptyExpanded ==
  tpc = "returned" => \A x \in Rows : ~StrictlyInside(ehr, data[x])

\* a returned rectangle that grew beyond its seed in some dimension, among
\* at least three points
C1_Witness ==
  /\ tpc = "returned"
  /\ Len(data) >= 3
  /\ \E d \in Dims : undxs[d] - lndxs[d] > 1

UpperFaceMaximal(d) ==
  \/ \E x \in Rows : data[x][d] = ehr.U[d] /\ Obstructs(ehr, data[x], d)
  \/ ehr.U[d] = highs[d]

LowerFaceMaximal(d) ==
  \/ \E x \in Rows : data[x][d] = ehr.L[d] /\ Obstructs(ehr, data[x], d)
  \/ ehr.L[d] = lows[d]

\* C2 as stated: every face of every returned rectangle, interior-only on or
\* off, is adjacent to a point in the way or lies on the extreme value
C2_MaximalAlways ==
  tpc = "returned" => \A d \in Dims : UpperFaceMaximal(d) /\ LowerFaceMaximal(d)

\* C2 amended: every face of a rectangle returned by the sequential strategy,
\* or by even or random with interior-only off or with the interior flag
\* true, is adjacent to a point in the way or lies on the extreme value
C2_MaximalWhenAllLocked ==
  (tpc = "returned" /\ (strategy = "sequential" \/ ~interiorOnly \/ interior))
    => \A d \in Dims : UpperFaceMaximal(d) /\ LowerFaceMaximal(d)

\* a returned rectangle with a face held by a point in the way, not by the edge
C2_Witness ==
  /\ tpc = "returned"
  /\ strategy # "sequential"
  /\ \E d \in Dims : ehr.U[d] # highs[d] /\ UpperFaceMaximal(d)
  /\ \E d \in Dims : ehr.L[d] # lows[d] /\ LowerFaceMaximal(d)

\* C3: the seed spans two consecutive entries of every projection, its
\* position vectors are t and t-1, and no data point is strictly inside it
C3_SeedConsecutive ==
  tpc = "seeded" =>
    /\ \A i \in Dims : \E t \in 1..(PLen(projections[i]) - 1) :
          /\ undxs[i] = t /\ lndxs[i] = t - 1
          /\ ehr.U[i] = projections[i][t] /\ ehr.L[i] = projections[i][t - 1]
    /\ \A x \in Rows : ~StrictlyInside(ehr, data[x])

FaceAtBoundary ==
  \E d \in Dims : \/ ULocked(d) /\ undxs[d] = PLen(projections[d]) - 1
                  \/ LLocked(d) /\ lndxs[d] = 0

\* C4: a returned interior flag is true exactly when no face locked at the
\* data boundary, and then the rectangle is strictly inside the bounding box
C4_InteriorFlag ==
  tpc = "returned" =>
    /\ interior <=> ~FaceAtBoundary
    /\ interior => \A d \in Dims : ehr.L[d] > lows[d] /\ ehr.U[d] < highs[d]

\* a rectangle returned with interior = true in two dimensions
C4_Witness == tpc = "returned" /\ interior /\ k = 2

\* C5: when every seed-and-expand call hands back a result and every write
\* of the artifact succeeds, the search eventually returns
C5_EventuallyReturns ==
  [](tpc # "keyerror" /\ outcome.error # "OSError") => <>(dpc = "returned")

HofVol(j) == volume(hallOfFame.items[j])

\* C6: in top mode the Hall of Fame is a sequence of strictly increasing
\* positive volumes and max_found is the volume of its last entry
C6_TopModeMonotone ==
  ~threshold.given =>
    /\ hallOfFame.kind = "list"
    /\ \A j \in 1..Len(hallOfFame.items) : HofVol(j) > 0
    /\ \A j \in 1..(Len(hallOfFame.items) - 1) : HofVol(j) < HofVol(j + 1)
    /\ maxFound = IF hallOfFame.items = <<>> THEN 0 ELSE HofVol(Len(hallOfFame.items))

\* two successive records, with a failed trial after the second
C6_Witness == ~threshold.given /\ Len(hallOfFame.items) = 2 /\ c = 1

\* C7: in threshold mode the Hall of Fame maps pairwise unequal rectangles
\* to their own volume, each above the threshold
C7_ThresholdUnique ==
  threshold.given =>
    /\ hallOfFame.kind = "dict"
    /\ \A j, l \in 1..Len(hallOfFame.items) :
          j # l => \/ hallOfFame.items[j].key.L # hallOfFame.items[l].key.L
                   \/ hallOfFame.items[j].key.U # hallOfFame.items[l].key.U
    /\ \A j \in 1..Len(hallOfFame.items) :
          /\ hallOfFame.items[j].val = volume(hallOfFame.items[j].key)
          /\ hallOfFame.items[j].val > threshold.val

\* an already recorded rectangle is about to be handled again
C7_Witness ==
  /\ threshold.given /\ dpc = "admit" /\ idx <= Len(mehrs)
  /\ Len(hallOfFame.items) >= 2
  /\ \E j \in 1..Len(hallOfFame.items) : hallOfFame.items[j].key = mehrs[idx].rect

Handling == dpc = "admit" /\ idx <= Len(mehrs)

InHof(hof, rect) ==
  \E j \in 1..Len(hof.items) :
     hof.kind = "dict" /\ hof.items[j].key = rect /\ hof.items[j].val = volume(rect)

\* C8: with a threshold supplied, every admissible result over the threshold
\* that is not yet recorded is inserted with its volume and resets c
C8_ThresholdModeWhenGiven ==
  [][(/\ Handling /\ threshold.given
      /\ (mehrs[idx].interior \/ ~interiorOnly)
      /\ volume(mehrs[idx].rect) > threshold.val
      /\ ~InHof(hallOfFame, mehrs[idx].rect))
     => (InHof(hallOfFame', mehrs[idx].rect) /\ c' = 0)]_vars

HofRects == {IF hallOfFame.kind = "dict" THEN hallOfFame.items[j].key ELSE hallOfFame.items[j] :
               j \in 1..Len(hallOfFame.items)}

\* whether handling r records it, apart from admissibility
Significant(r) ==
  IF threshold.given /\ threshold.val # 0
  THEN volume(r) > threshold.val /\ r \notin HofRects
  ELSE volume(r) > maxFound /\ ~threshold.given

\* C9: with interior-only on, only results flagged interior are recorded and
\* every recorded rectangle is strictly inside the bounding box; with
\* interior-only off the flag has no part in whether a result is recorded
C9_Admission ==
  /\ [](interiorOnly =>
          \A r \in HofRects : \A d \in Dims : r.L[d] > lows[d] /\ r.U[d] < highs[d])
  /\ [][(Handling /\ hallOfFame' # hallOfFame) => (mehrs[idx].interior \/ ~interiorOnly)]_vars
  /\ [][(Handling /\ ~interiorOnly) =>
          ((hallOfFame' # hallOfFame) <=> Significant(mehrs[idx].rect))]_vars

\* interior-only on: an interior rectangle recorded, a later result discarded
C9_Witness == interiorOnly /\ Len(hallOfFame.items) >= 1 /\ c >= 1

\* C10: the seed's positions satisfy 1 <= u_ndxs <= |P|-1 and
\* l_ndxs = u_ndxs - 1 >= 0, and no step fails on a missing index
C10_IndicesValid ==
  /\ tpc = "seeded" =>
       \A i \in Dims : /\ 1 <= undxs[i] /\ undxs[i] <= PLen(projections[i]) - 1
                       /\ lndxs[i] = undxs[i] - 1 /\ lndxs[i] >= 0
  /\ tpc # "keyerror"

\* C11: a search called with maxitr <= 0 does not get past the call: no batch
\* is dispatched and no Hall of Fame is returned
C11_NonPositiveRejected ==
  maxitr <= 0 => (batches = 0 /\ outcome.kind # "value")

\* C12: the artifact is written once per batch, after the batch's last result
\* is handled and before the next batch is dispatched; between batches the
\* writes number the batches and the snapshot is the Hall of Fame in memory;
\* the value returned is the last snapshot
C12_SnapshotPerBatch ==
  /\ []((dpc \in {"loop", "returned"}) => writes = batches)
  /\ [](outcome.error # "OSError" => (writes <= batches /\ batches <= writes + 1))
  /\ []((dpc \in {"loop", "returned"} /\ writes > 0) => artifact = hallOfFame)
  /\ []((outcome.kind = "value" /\ writes > 0) => artifact = outcome.value)
  /\ [][writes' # writes =>
          /\ writes' = writes + 1
          /\ dpc = "admit" /\ idx > Len(mehrs) /\ dpc' = "loop"
          /\ artifact' = hallOfFame /\ hallOfFame' = hallOfFame]_vars
  /\ [][artifact' # artifact => (writes' # writes \/ outcome'.error = "OSError")]_vars

\* the second batch has been written, with a Hall of Fame that is not empty
C12_Witness ==
  dpc = "loop" /\ writes = 2 /\ hallOfFame.items # <<>> /\ artifact = hallOfFame

\* C13: when the write of the artifact fails, the exception reaches the
\* caller, Hall of Fame, c and max_found are as they were, and the caller
\* still holds the results recorded so far
C13_WriteFailureKeepsResults ==
  [][(outcome.kind = "pending" /\ outcome'.error = "OSError") =>
       /\ outcome'.kind = "error"
       /\ hallOfFame' = hallOfFame /\ c' = c /\ maxFound' = maxFound
       /\ outcome'.value = hallOfFame]_vars

OnFace(r, p, j) == p[j] = r.L[j] \/ p[j] = r.U[j]

\* C14: inWay(p, d) is true exactly when p is strictly between L and U on
\* every axis but d; a point on a face of another axis is not in the way, a
\* contained point is in the way of every axis, and in one dimension every
\* point is in the way
C14_InWay ==
  rcall.op = "inWay" =>
    /\ rres.bool <=> Obstructs(rself, rcall.point, rcall.d)
    /\ (\E j \in (DOMAIN rcall.point) \ {rcall.d} : OnFace(rself, rcall.point, j)) => ~rres.bool
    /\ StrictlyInside(rself, rcall.point) => rres.bool
    /\ DOMAIN rself.L = {0} => rres.bool

\* a point strictly between the bounds of axis 0 and on a face of axis 1 has
\* been asked about for axis 0
C14_Witness ==
  /\ rcall.op = "inWay" /\ rcall.d = 0 /\ DOMAIN rself.L = {0, 1}
  /\ rself.L[0] < rcall.point[0] /\ rcall.point[0] < rself.U[0]
  /\ rself.L[1] < rself.U[1] /\ rcall.point[1] = rself.U[1]
  /\ ~rres.bool

\* C15: for rectangles of one dimension intersect hands back the pointwise
\* largest lower and smallest upper bounds, and None exactly when one of the
\* widths is negative; for rectangles of different dimension it raises
C15_Intersect ==
  rcall.op = "intersect" =>
    IF DOMAIN rself.L # DOMAIN rcall.other.L
    THEN rres.kind = "ValueError"
    ELSE LET a == rself
             b == rcall.other
             lo(i) == IF a.L[i] >= b.L[i] THEN a.L[i] ELSE b.L[i]
             hi(i) == IF a.U[i] <= b.U[i] THEN a.U[i] ELSE b.U[i]
         IN /\ rres.kind \in {"rect", "None"}
            /\ rres.kind = "None" <=> \E i \in DOMAIN a.L : hi(i) - lo(i) < 0
            /\ rres.kind = "rect" =>
                  \A i \in DOMAIN a.L : rres.rect.L[i] = lo(i) /\ rres.rect.U[i] = hi(i)

\* two rectangles of positive width that touch on a face have been intersected
C15_Witness ==
  /\ rcall.op = "intersect" /\ DOMAIN rself.L = {0, 1} /\ DOMAIN rcall.other.L = {0, 1}
  /\ \A i \in {0, 1} : rself.L[i] < rself.U[i] /\ rcall.other.L[i] < rcall.other.U[i]
  /\ rself.U[0] = rcall.other.L[0]
  /\ rres.kind = "rect" /\ rres.rect.U[0] = rres.rect.L[0]

\* r with every bound doubled, to place points half way between coordinates
Doubled(r) == [U |-> [i \in DOMAIN r.U |-> 2 * r.U[i]], L |-> [i \in DOMAIN r.L |-> 2 * r.L[i]]]

HalfPoints(dims) == [dims -> 0..(2 * MaxCoord)]

\* C16: the intersection of A with B is the intersection of B with A, and
\* when it is a rectangle the points strictly inside it are the points
\* strictly inside both A and B
C16_IntersectRelations ==
  (rcall.op = "intersect" /\ DOMAIN rself.L = DOMAIN rcall.other.L) =>
    /\ [kind |-> rres.kind, rect |-> rres.rect] = intersect(rcall.other, rself)
    /\ rres.kind = "rect" =>
          \A q \in HalfPoints(DOMAIN rself.L) :
             contains(Doubled(rres.rect), q)
               <=> (contains(Doubled(rself), q) /\ contains(Doubled(rcall.other), q))

\* two overlapping rectangles, neither inside the other, have been intersected
C16_Witness ==
  /\ rcall.op = "intersect" /\ DOMAIN rself.L = {0, 1} /\ DOMAIN rcall.other.L = {0, 1}
  /\ rres.kind = "rect" /\ \A i \in {0, 1} : rres.rect.L[i] < rres.rect.U[i]
  /\ rres.rect # rself /\ rres.rect # rcall.other

\* C17: handling a result resets c to 0 when it is added to the Hall of Fame,
\* and adds 1 to c when it is not
C17_CounterStep ==
  [][Handling => \/ hallOfFame' # hallOfFame /\ c' = 0
                 \/ hallOfFame' = hallOfFame /\ c' = c + 1]_vars

\* C18: c stays within 0..maxitr, and the search returns with c = maxitr
C18_CounterBounds ==
  /\ 0 <= c /\ c <= maxitr
  /\ dpc = "batch" => c + batch <= maxitr
  /\ dpc = "admit" => c + (Len(mehrs) - idx + 1) <= maxitr
  /\ outcome.kind = "value" => c = maxitr

\* a search has returned after a batch of 10 calls per core and a shorter one
C18_Witness ==
  /\ outcome.kind = "value" /\ maxitr > CpuCount * 10
  /\ hofSizes[1] = 1 /\ Len(hofSizes) = 2 /\ Len(mehrs) < CpuCount * 10

\* an expansion of the even or random strategy is at the test of its while loop
AtLoopTest ==
  /\ tpc = "expand"
  /\ IF strategy = "even" THEN pos = 1 ELSE strategy = "random"

\* C19: an even or random expansion that goes on after a loop test at which
\* interior is false keeps interior false and does not fail at its next
\* step; a returned rectangle with an unlocked face has interior false
\* under interior-only; and a result with interior false under interior-only
\* changes neither the Hall of Fame nor max_found and adds 1 to c
C19_EarlyExitEquivalent ==
  /\ [][(strategy # "sequential" /\ tpc = "expand" /\ ~interior) => ~interior']_vars
  /\ [][(AtLoopTest /\ ~interior) => tpc' # "keyerror"]_vars
  /\ []((tpc = "returned" /\ \E d \in Dims : ~ULocked(d) \/ ~LLocked(d)) =>
          (interiorOnly /\ ~interior))
  /\ [][(Handling /\ interiorOnly /\ ~mehrs[idx].interior) =>
          (hallOfFame' = hallOfFame /\ maxFound' = maxFound /\ c' = c + 1)]_vars

C22_TaskCompletes ==
  /\ [](tpc \in {"seeded", "expand", "returned"} =>
          \A d \in Dims : /\ 0 <= lndxs[d] /\ lndxs[d] < undxs[d]
                          /\ undxs[d] <= PLen(projections[d]) - 1)
  /\ [][tpc = "expand" =>
          \A d \in Dims : /\ undxs'[d] >= undxs[d] /\ lndxs'[d] <= lndxs[d]
                          /\ (ULocked(d) => undxs'[d] = undxs[d])
                          /\ (LLocked(d) => lndxs'[d] = lndxs[d])]_vars
  /\ (tpc = "seeded" ~> tpc = "returned")
====
